---- MODULE Spec2Model ----
(***************************************************************************)
(* The PitchSet / Tonality arithmetic of the_real_script/utils.py, with    *)
(* the tables of the_real_script/constants.py.                             *)
(*                                                                         *)
(* Python sequences are 0-based and TLA+ sequences 1-based: element i of a *)
(* Python sequence s is s[i + 1] here.  A call either returns a value or   *)
(* raises; a raised exception is a result whose status is the exception's  *)
(* type.                                                                   *)
(***************************************************************************)
EXTENDS Integers, Sequences, FiniteSets, TLC

VARIABLES p, ton, call

vars == <<p, ton, call>>

(***************************************************************************)
(* Bounds of the inputs drawn by the actions.                              *)
(***************************************************************************)
MaxLen == 3
MaxInversion == 4
MaxSize == 7
MaxDegrees == 2

(***************************************************************************)
(* constants.py                                                            *)
(***************************************************************************)
Octave == 12

NOTES == <<"C", "Db", "D", "Eb", "E", "F", "F#", "G", "Ab", "A", "Bb", "B">>

DEGREES == <<"I", "II", "III", "IV", "V", "VI", "VII">>

INTERVALS ==
  <<"P1", "m2", "M2", "m3", "M3", "P4", "TT", "P5", "m6", "M6", "m7", "M7", "P8">>

C_BASE_SCALES ==
  [s \in {"cromatic", "diatonic", "melodic minor", "harmonic minor"} |->
     CASE s = "cromatic" -> <<0, 1, 2, 3, 4, 5, 6, 7, 8, 9, 10, 11>>
       [] s = "diatonic" -> <<0, 2, 4, 5, 7, 9, 11>>
       [] s = "melodic minor" -> <<0, 2, 3, 5, 7, 9, 11>>
       [] s = "harmonic minor" -> <<0, 2, 3, 5, 7, 8, 11>>]

PITCHSET_INTERVALS ==
  { <<"", <<4, 3>> >>,
    <<"m", <<3, 4>> >>,
    <<"maj7", <<4, 3, 4>> >>,
    <<"m7", <<3, 4, 3>> >>,
    <<"7", <<4, 3, 3>> >>,
    <<"m7b5", <<3, 3, 4>> >>,
    <<"m7(maj7)", <<3, 4, 4>> >>,
    <<"maj7(#5)", <<4, 4, 3>> >>,
    <<"dim", <<3, 3, 3>> >>,
    <<" cromatic", <<1, 1, 1, 1, 1, 1, 1, 1, 1, 1, 1>> >>,
    <<" ionian", <<2, 2, 1, 2, 2, 2>> >>,
    <<" dorian", <<2, 1, 2, 2, 2, 1>> >>,
    <<" phrygian", <<1, 2, 2, 2, 1, 2>> >>,
    <<" lydian", <<2, 2, 2, 1, 2, 2>> >>,
    <<" mixolydian", <<2, 2, 1, 2, 2, 1>> >>,
    <<" aeolian", <<2, 1, 2, 2, 1, 2>> >>,
    <<" locrian", <<1, 2, 2, 1, 2, 2>> >>,
    <<" harmonic minor", <<2, 1, 2, 2, 1, 3>> >>,
    <<" melodic minor", <<2, 1, 2, 2, 2, 2>> >> }

\* PITCHSET_NAMES: the table above keyed by the interval tuple.
HasPitchSetName(interval_values) ==
  \E e \in PITCHSET_INTERVALS : e[2] = interval_values

PITCHSET_NAMES(interval_values) ==
  (CHOOSE e \in PITCHSET_INTERVALS : e[2] = interval_values)[1]

(***************************************************************************)
(* Python and numpy primitives used by utils.py                            *)
(***************************************************************************)
Abs(x) == IF x < 0 THEN -x ELSE x

Min(x, y) == IF x < y THEN x ELSE y

Max(x, y) == IF x < y THEN y ELSE x

\* s[k:] of a Python sequence: a negative k counts from the end, and the
\* start is clamped to the sequence.
PySliceFrom(s, k) ==
  LET start == IF k < 0 THEN Max(Len(s) + k, 0) ELSE Min(k, Len(s))
  IN  SubSeq(s, start + 1, Len(s))

\* s[:k] of a Python sequence.
PySliceTo(s, k) ==
  LET stop == IF k < 0 THEN Max(Len(s) + k, 0) ELSE Min(k, Len(s))
  IN  SubSeq(s, 1, stop)

\* tuple.index(x): the 0-based position of x, or -1 where Python raises
\* ValueError.
PyIndex(table, x) ==
  IF \E i \in 1..Len(table) : table[i] = x
  THEN (CHOOSE i \in 1..Len(table) : table[i] = x) - 1
  ELSE -1

\* table[i] of a Python sequence: a negative i counts from the end; an i
\* outside -len..len-1 is an IndexError.
PyInRange(table, i) == -Len(table) <= i /\ i < Len(table)

PyAt(table, i) == IF i < 0 THEN table[Len(table) + i + 1] ELSE table[i + 1]

\* s[start:stop:step] of a Python sequence, for 0 <= start and 0 < step.
PyStepSlice(s, start, stop, step) ==
  LET n == IF Min(stop, Len(s)) <= start THEN 0
           ELSE (Min(stop, Len(s)) - start + step - 1) \div step
  IN  [j \in 1..n |-> s[start + (j - 1) * step + 1]]

RECURSIVE SumSeq(_)
SumSeq(s) == IF s = <<>> THEN 0 ELSE s[1] + SumSeq(Tail(s))

\* np.cumsum
CumSum(s) == [i \in 1..Len(s) |-> SumSeq(SubSeq(s, 1, i))]

\* repr of a list of str, as an f-string prints it: ['C', 'E', 'G']
RECURSIVE ReprItems(_)
ReprItems(names) ==
  IF names = <<>> THEN ""
  ELSE IF Len(names) = 1 THEN "'" \o names[1] \o "'"
  ELSE "'" \o names[1] \o "', " \o ReprItems(Tail(names))

ReprList(names) == "[" \o ReprItems(names) \o "]"

(***************************************************************************)
(* Results.  A PitchSet result carries every attribute __init__ sets; a    *)
(* raised exception carries its type and message and no attribute.         *)
(***************************************************************************)
Raised(type, message) ==
  [status |-> type, msg |-> message, values |-> <<>>, interval_values |-> <<>>,
   structure_values |-> <<>>, tonic |-> "", notes |-> <<>>, name |-> "",
   intervals |-> <<>>, structure |-> <<>>, third |-> ""]

NoSet == Raised("none", "")

IsSet(ps) == ps.status = "ok"

\* The Python values handed to a constructor or an operator: an int, a list
\* (or tuple, or ndarray) of ints, a PitchSet, or a float (a type the
\* constructor rejects).
IntIn(n) == [kind |-> "int", n |-> n, seq |-> <<>>]

ListIn(s) == [kind |-> "list", n |-> 0, seq |-> s]

SetIn(ps) == [kind |-> "PitchSet", n |-> 0, seq |-> ps.values]

FloatIn == [kind |-> "float", n |-> 0, seq |-> <<>>]

(***************************************************************************)
(* utils.py: invert, calculate_intervals                                   *)
(***************************************************************************)
\* The guard of invert: np.abs(inversion) > (len(values) - 1).
\* InversionUnsignedCheck is the guard with np.abs left out.
InversionUnsignedCheck(values, inversion) == inversion > Len(values) - 1

InversionOutOfRange(values, inversion) == Abs(inversion) > Len(values) - 1

\* np.hstack([values[inversion:], values[:inversion]])
\* RotateUnsigned is the rotation with the sign of the inversion dropped.
RotateUnsigned(values, inversion) ==
  PySliceFrom(values, Abs(inversion)) \o PySliceTo(values, Abs(inversion))

Rotate(values, inversion) ==
  PySliceFrom(values, inversion) \o PySliceTo(values, inversion)

\* invert(values, inversion): the rotated values, or the ValueError.
invert(values, inversion) ==
  IF InversionOutOfRange(values, inversion)
  THEN [status |-> "ValueError", msg |-> "Inversion out of range", values |-> <<>>]
  ELSE [status |-> "ok", msg |-> "", values |-> Rotate(values, inversion)]

\* calculate_intervals(values): (next_note - note) % 12 over zip(values, values[1:]).
calculate_intervals(values) ==
  [i \in 1..(Len(values) - 1) |-> (values[i + 1] - values[i]) % Octave]

(***************************************************************************)
(* utils.py: PitchSet.__init__ and the attributes it derives               *)
(***************************************************************************)
\* self.values = np.array(values) % 12
\* NormalizeTruncating is the remainder that keeps the sign of the dividend
\* (C's %), where Python's % takes the sign of the divisor.
NormalizeTruncating(values) ==
  [i \in 1..Len(values) |->
     IF values[i] < 0 THEN -((-values[i]) % Octave) ELSE values[i] % Octave]

Normalize(values) == [i \in 1..Len(values) |-> values[i] % Octave]

\* self.structure_values = np.hstack([0, np.cumsum(self.interval_values)])
\* StructureValuesFolded is the structure with each distance folded into the
\* octave.
StructureValuesFolded(interval_values) ==
  <<0>> \o [i \in 1..Len(interval_values) |-> CumSum(interval_values)[i] % Octave]

StructureValues(interval_values) == <<0>> \o CumSum(interval_values)

\* np.cumsum of an empty tuple is an empty float64 array, and np.hstack of 0
\* with it is the float64 array [0.]: the structure of a one-note set holds a
\* numpy float, the structure of a longer set numpy integers.
StructureIsFloat(interval_values) == Len(interval_values) = 0

\* init_name
init_name(tonic, notes, interval_values) ==
  IF HasPitchSetName(interval_values)
  THEN tonic \o PITCHSET_NAMES(interval_values)
  ELSE "Unknown set: " \o ReprList(notes)

\* init_third
init_third(structure_values) ==
  IF \E i \in 1..Len(structure_values) : structure_values[i] = 3 THEN "minor"
  ELSE IF \E i \in 1..Len(structure_values) : structure_values[i] = 4 THEN "major"
  ELSE "suspended"

\* The body of __init__ from "Value attributes" on, for values that passed the
\* type checks.  The statements run in the order of the source, so the first
\* one to raise decides the exception:
\*   NOTES[self.values[0]]             IndexError when there is no value;
\*   INTERVALS[i] for i in structure   TypeError when i is a float,
\*                                     IndexError when i > 12.
\* The lookups in NOTES and INTERVALS index as Python does.
Build(raw) ==
  LET values == Normalize(raw)
      interval_values == calculate_intervals(values)
      structure_values == StructureValues(interval_values)
      tonic == PyAt(NOTES, values[1])
      notes == [i \in 1..Len(values) |-> PyAt(NOTES, values[i])]
  IN  IF Len(values) = 0
      THEN Raised("IndexError", "index 0 is out of bounds for axis 0 with size 0")
      ELSE IF \E i \in 1..Len(values) : ~PyInRange(NOTES, values[i])
      THEN Raised("IndexError", "tuple index out of range")
      ELSE IF \E i \in 1..Len(interval_values) :
                ~PyInRange(INTERVALS, interval_values[i])
      THEN Raised("IndexError", "list index out of range")
      ELSE IF StructureIsFloat(interval_values)
      THEN Raised("TypeError",
                  "list indices must be integers or slices, not numpy.float64")
      ELSE IF \E i \in 1..Len(structure_values) :
                ~PyInRange(INTERVALS, structure_values[i])
      THEN Raised("IndexError", "list index out of range")
      ELSE [status |-> "ok", msg |-> "",
            values |-> values,
            interval_values |-> interval_values,
            structure_values |-> structure_values,
            tonic |-> tonic,
            notes |-> notes,
            name |-> init_name(tonic, notes, interval_values),
            intervals |-> [i \in 1..Len(interval_values) |->
                             PyAt(INTERVALS, interval_values[i])],
            structure |-> [i \in 1..Len(structure_values) |->
                             PyAt(INTERVALS, structure_values[i])],
            third |-> init_third(structure_values)]

\* PitchSet(values): the type checks of __init__, then the attributes.
PitchSet(input) ==
  IF input.kind \notin {"int", "list", "PitchSet"}
  THEN Raised("TypeError", "Valid object types to build a PitchSet are: ...")
  ELSE LET raw == IF input.kind = "int" THEN <<input.n>> ELSE input.seq
       IN  IF ~(\A i \in 1..Len(raw) : raw[i] \in Int)
           THEN Raised("TypeError", "A PitchSet can only be constructed from integers.")
           ELSE Build(raw)

(***************************************************************************)
(* utils.py: the operators of PitchSet                                     *)
(***************************************************************************)
\* numpy's element-wise a (+|-) b of two 1-d arrays: equal lengths, or one of
\* them of length 1 and repeated; any other pair of lengths is a ValueError.
CanBroadcast(a, b) == Len(a) = Len(b) \/ Len(a) = 1 \/ Len(b) = 1

Elementwise(a, b, sign) ==
  LET n == IF Len(a) = 1 THEN Len(b) ELSE Len(a)
      at(s, i) == IF Len(s) = 1 THEN s[1] ELSE s[i]
  IN  [i \in 1..n |-> at(a, i) + sign * at(b, i)]

\* PitchSet(left.values (+|-) right.values) for two results of PitchSet(...);
\* whichever constructor raised first ends the call.
Combine(left, right, sign) ==
  IF ~IsSet(left) THEN left
  ELSE IF ~IsSet(right) THEN right
  ELSE IF ~CanBroadcast(left.values, right.values)
  THEN Raised("ValueError", "operands could not be broadcast together")
  ELSE PitchSet(ListIn(Elementwise(left.values, right.values, sign)))

\* __add__: PitchSet(self.values + PitchSet(summand).values)
PitchSet_add(self, summand) == Combine(self, PitchSet(summand), 1)

\* __radd__: self.__add__(summand)
PitchSet_radd(self, summand) == PitchSet_add(self, summand)

\* __sub__: PitchSet(self.values - PitchSet(subtrahend).values)
PitchSet_sub(self, subtrahend) == Combine(self, PitchSet(subtrahend), -1)

\* __rsub__: PitchSet(minuend) - self
PitchSet_rsub(self, minuend) ==
  LET left == PitchSet(minuend)
  IN  IF ~IsSet(left) THEN left ELSE PitchSet_sub(left, SetIn(self))

\* PitchSet.invert: PitchSet(invert(self.values, inversion=inversion))
PitchSet_invert(self, inversion) ==
  LET rotated == invert(self.values, inversion)
  IN  IF rotated.status # "ok" THEN Raised(rotated.status, rotated.msg)
      ELSE PitchSet(ListIn(rotated.values))

(***************************************************************************)
(* utils.py: Tonality                                                      *)
(***************************************************************************)
TonalityRaised(type, message) ==
  [status |-> type, msg |-> message, tonic |-> "", scale_type |-> "", mode |-> "",
   cromatic |-> NoSet, scale |-> NoSet]

NoTonality == TonalityRaised("none", "")

\* np.hstack([tonic_value, (tonic_value + np.cumsum(interval_values))])
\* ModalValuesUntransposed is ModalValues with the tonic left out, the scale
\* staying on C.
ModalValuesUntransposed(tonic_value, interval_values) ==
  <<0>> \o CumSum(interval_values)

ModalValues(tonic_value, interval_values) ==
  <<tonic_value>> \o
  [i \in 1..Len(interval_values) |-> tonic_value + CumSum(interval_values)[i]]

\* init_scale, for a tonic that is in NOTES.
init_scale(tonic, scale_type, mode) ==
  LET tonic_value == PyIndex(NOTES, tonic)
  IN  IF scale_type \notin DOMAIN C_BASE_SCALES
      THEN Raised("KeyError", scale_type)
      ELSE IF PyIndex(DEGREES, mode) < 0
      THEN Raised("ValueError", "tuple.index(x): x not in tuple")
      ELSE LET inversion == invert(C_BASE_SCALES[scale_type], PyIndex(DEGREES, mode))
           IN  IF inversion.status # "ok"
               THEN Raised(inversion.status, inversion.msg)
               ELSE LET interval_values == calculate_intervals(inversion.values)
                    IN  PitchSet(ListIn(ModalValues(tonic_value, interval_values)))

\* Tonality.__init__
Tonality(tonic, scale_type, mode) ==
  IF PyIndex(NOTES, tonic) < 0
  THEN TonalityRaised("ValueError", "tuple.index(x): x not in tuple")
  ELSE LET rotated == invert(C_BASE_SCALES["cromatic"], PyIndex(NOTES, tonic))
           cromatic == IF rotated.status # "ok"
                       THEN Raised(rotated.status, rotated.msg)
                       ELSE PitchSet(ListIn(rotated.values))
           scale == init_scale(tonic, scale_type, mode)
       IN  IF ~IsSet(cromatic) THEN TonalityRaised(cromatic.status, cromatic.msg)
           ELSE IF ~IsSet(scale) THEN TonalityRaised(scale.status, scale.msg)
           ELSE [status |-> "ok", msg |-> "", tonic |-> tonic,
                 scale_type |-> scale_type, mode |-> mode,
                 cromatic |-> cromatic, scale |-> scale]

\* A degree handed to chords: an int (1-based ordinal) or a str (its name).
IntDegree(n) == [kind |-> "int", n |-> n, s |-> ""]

StrDegree(s) == [kind |-> "str", n |-> 0, s |-> s]

ChordsRaised(type, message) ==
  [status |-> type, msg |-> message, single |-> FALSE, chords |-> <<>>]

\* degree_value of one degree: degree - 1, or DEGREES.index(degree).
DegreeValue(degree) ==
  IF degree.kind = "int" THEN degree.n - 1 ELSE PyIndex(DEGREES, degree.s)

\* range(0, 7) of "if degree_value not in range(0, 7)"
DegreeInRange(degree_value) == 0 <= degree_value /\ degree_value < 7

\* list(self.scale.values) * 3, [degree_value : degree_value + 14 : 2], [0:size]
CroppedChord(scale_values, degree_value, size) ==
  LET three_octaves_scale == scale_values \o scale_values \o scale_values
      seven_note_chord ==
        PyStepSlice(three_octaves_scale, degree_value, degree_value + 14, 2)
  IN  PySliceTo(seven_note_chord, size)

\* The loop of chords over the degrees still to do, chords holding the sets
\* appended so far; the first exception ends the call.
RECURSIVE ChordsLoop(_, _, _, _)
ChordsLoop(scale_values, degrees, size, chords) ==
  IF degrees = <<>>
  THEN [status |-> "ok", msg |-> "", single |-> Len(chords) = 1, chords |-> chords]
  ELSE LET degree == Head(degrees)
       IN  IF degree.kind = "str" /\ PyIndex(DEGREES, degree.s) < 0
           THEN ChordsRaised("ValueError", "tuple.index(x): x not in tuple")
           ELSE IF ~DegreeInRange(DegreeValue(degree))
           THEN ChordsRaised("ValueError", "Invalid degree")
           ELSE LET chord ==
                      PitchSet(ListIn(CroppedChord(scale_values, DegreeValue(degree), size)))
                IN  IF ~IsSet(chord) THEN ChordsRaised(chord.status, chord.msg)
                    ELSE ChordsLoop(scale_values, Tail(degrees), size,
                                    Append(chords, chord))

\* The degrees argument of chords: one degree, or a list of degrees.
OneDegree(d) == [scalar |-> TRUE, one |-> d, seq |-> <<>>]

DegreeList(ds) == [scalar |-> FALSE, one |-> IntDegree(0), seq |-> ds]

\* Tonality.chords(degrees, size): a lone str or int is wrapped in a list first.
Tonality_chords(self, degrees, size) ==
  LET wrapped == IF degrees.scalar THEN <<degrees.one>> ELSE degrees.seq
  IN  ChordsLoop(self.scale.values, wrapped, size, <<>>)

(***************************************************************************)
(* The inputs the actions draw.                                            *)
(***************************************************************************)
SeqsUpTo(S, n) == UNION {[1..m -> S] : m \in 0..n}

\* Integers handed to the constructor: below 0, in 0..11, and 12 or above.
ConstructInts == {-13, -5, 0, 1, 3, 4, 6, 7, 12}

ConstructInputs ==
  {IntIn(n) : n \in ConstructInts}
    \cup {ListIn(s) : s \in SeqsUpTo(ConstructInts, MaxLen)}
    \cup {FloatIn}

\* Operands of + and -: integers (7 and -5 are congruent modulo 12, 12 is a
\* multiple of it), lists of values outside 0..11, the set itself, and a float.
OperandInts == {-5, 7, 12}

OperandElems == {-5, 12}

Operands(self) ==
  {IntIn(n) : n \in OperandInts}
    \cup {ListIn(s) : s \in SeqsUpTo(OperandElems, MaxLen) \ {<<>>}}
    \cup {SetIn(self), FloatIn}

Inversions == (-MaxInversion)..MaxInversion

TonicInputs == {NOTES[i] : i \in 1..Len(NOTES)} \cup {"H"}

ScaleTypeInputs == DOMAIN C_BASE_SCALES \cup {"pentatonic"}

ModeInputs == {DEGREES[i] : i \in 1..Len(DEGREES)} \cup {"VIII"}

DegreeInputs ==
  {IntDegree(n) : n \in (-1)..9} \cup {StrDegree(m) : m \in ModeInputs}

ListDegrees == {IntDegree(1), IntDegree(8), StrDegree("V"), StrDegree("VIII")}

DegreesInputs ==
  {OneDegree(d) : d \in DegreeInputs}
    \cup {DegreeList(ds) : ds \in SeqsUpTo(ListDegrees, MaxDegrees)}

Sizes == 0..MaxSize

(***************************************************************************)
(* The state machine.  p is the PitchSet the caller holds, ton the         *)
(* Tonality it holds, call the call in progress: its operation, its        *)
(* arguments and what it returned or raised.  A call leaves the objects it *)
(* was given as they were; Return hands the result to the caller, which    *)
(* keeps a returned object in place of the one it held.                    *)
(***************************************************************************)
NoCall == [op |-> "none", arg |-> IntIn(0), k |-> 0, out |-> NoSet]

Idle == call.op = "none"

Init == p = NoSet /\ ton = NoTonality /\ call = NoCall

\* p = PitchSet(input)
Construct ==
  /\ Idle /\ ~IsSet(p) /\ ton = NoTonality
  /\ \E input \in ConstructInputs :
       call' = [op |-> "PitchSet", arg |-> input, k |-> 0, out |-> PitchSet(input)]
  /\ UNCHANGED <<p, ton>>

\* p + x
Add ==
  /\ Idle /\ IsSet(p)
  /\ \E x \in Operands(p) :
       call' = [op |-> "add", arg |-> x, k |-> 0, out |-> PitchSet_add(p, x)]
  /\ UNCHANGED <<p, ton>>

\* x + p
RAdd ==
  /\ Idle /\ IsSet(p)
  /\ \E x \in Operands(p) :
       call' = [op |-> "radd", arg |-> x, k |-> 0, out |-> PitchSet_radd(p, x)]
  /\ UNCHANGED <<p, ton>>

\* p - x
Sub ==
  /\ Idle /\ IsSet(p)
  /\ \E x \in Operands(p) :
       call' = [op |-> "sub", arg |-> x, k |-> 0, out |-> PitchSet_sub(p, x)]
  /\ UNCHANGED <<p, ton>>

\* x - p
RSub ==
  /\ Idle /\ IsSet(p)
  /\ \E x \in Operands(p) :
       call' = [op |-> "rsub", arg |-> x, k |-> 0, out |-> PitchSet_rsub(p, x)]
  /\ UNCHANGED <<p, ton>>

\* p.invert(k)
Invert ==
  /\ Idle /\ IsSet(p)
  /\ \E k \in Inversions :
       call' = [op |-> "invert", arg |-> IntIn(k), k |-> k,
                out |-> PitchSet_invert(p, k)]
  /\ UNCHANGED <<p, ton>>

\* ton = Tonality(tonic, scale_type, mode)
NewTonality ==
  /\ Idle /\ ton.status # "ok" /\ ~IsSet(p)
  /\ \E tonic \in TonicInputs, scale_type \in ScaleTypeInputs, mode \in ModeInputs :
       call' = [op |-> "Tonality",
                arg |-> [tonic |-> tonic, scale_type |-> scale_type, mode |-> mode],
                k |-> 0,
                out |-> Tonality(tonic, scale_type, mode)]
  /\ UNCHANGED <<p, ton>>

\* ton.chords(degrees, size)
Chords ==
  /\ Idle /\ ton.status = "ok"
  /\ \E degrees \in DegreesInputs, size \in Sizes :
       call' = [op |-> "chords",
                arg |-> [degrees |-> degrees, size |-> size],
                k |-> 0,
                out |-> Tonality_chords(ton, degrees, size)]
  /\ UNCHANGED <<p, ton>>

PitchSetOps == {"PitchSet", "add", "radd", "sub", "rsub", "invert"}

\* The call ends: a returned PitchSet or Tonality is bound by the caller, an
\* exception leaves the caller with what it held.
Return ==
  /\ ~Idle
  /\ p' = IF call.op \in PitchSetOps /\ call.out.status = "ok" THEN call.out ELSE p
  /\ ton' = IF call.op = "Tonality" /\ call.out.status = "ok" THEN call.out ELSE ton
  /\ call' = NoCall

Next == Construct \/ Add \/ RAdd \/ Sub \/ RSub \/ Invert \/ Return

Spec == Init /\ [][Next]_vars

NextTonality == NewTonality \/ Chords \/ Return

SpecTonality == Init /\ [][NextTonality]_vars

(***************************************************************************)
(* Properties of PitchSet, checked under Spec.                             *)
(***************************************************************************)
IsPitchSetCall == call.op \in PitchSetOps

InOctave(values) == \A i \in 1..Len(values) : values[i] \in 0..(Octave - 1)

\* The number of positions of values that hold v.
Count(values, v) == Cardinality({i \in 1..Len(values) : values[i] = v})

\* An operand of + or - that the element-wise rule covers for self: an
\* integer, or a list as long as self.
Compatible(self, x) ==
  \/ x.kind = "int"
  \/ x.kind \in {"list", "PitchSet"} /\ Len(x.seq) = Len(self.values)

\* The raw integer of operand x at position i.
OperandAt(x, i) == IF x.kind = "int" THEN x.n ELSE x.seq[i]

\* Operand x with 12 * j added to every element.
Shifted(x, j) ==
  IF x.kind = "int" THEN IntIn(x.n + Octave * j)
  ELSE ListIn([i \in 1..Len(x.seq) |-> x.seq[i] + Octave * j])

\* C1: modular closure.  Every PitchSet that exists, the one the caller holds
\* and the one any of the constructor, +, -, reverse +/- and invert returned,
\* has all its values in 0..11.
ModularClosure ==
  /\ IsSet(p) => InOctave(p.values)
  /\ (IsPitchSetCall /\ IsSet(call.out)) => InOctave(call.out.values)

\* C1: a subtraction returned a set although a raw difference was negative,
\* the operand holding a negative integer.
ModularClosureWitness ==
  /\ call.op = "sub" /\ IsSet(call.out)
  /\ call.arg.kind = "list"
  /\ \E i \in 1..Len(call.arg.seq) : call.arg.seq[i] < 0
  /\ \E i \in 1..Len(p.values) :
       p.values[i] - PitchSet(call.arg).values[i] < 0

\* C2: octave equivalence of modulation.  For a set S and a modulator a (an
\* integer, or a list as long as S), S + a is a set; S + b has the same values
\* for b congruent to a element-wise (a moved by an octave up or down, and for
\* an a in 1..11 the downward shift by the complement, a - 12); and S + a has
\* the values of S when a is a multiple of 12.
OctaveEquivalence ==
  (call.op = "add" /\ call.arg.kind \in {"int", "list"} /\ Compatible(p, call.arg)) =>
    /\ IsSet(call.out)
    /\ \A j \in {-1, 1} :
         LET other == PitchSet_add(p, Shifted(call.arg, j))
         IN  IsSet(other) /\ other.values = call.out.values
    /\ (\A i \in 1..Len(p.values) : OperandAt(call.arg, i) % Octave = 0) =>
         call.out.values = p.values

\* C6: inversion round trip.  For a set P of length n and |k| <= n - 1,
\* P.invert(k) is a set, and P.invert(k).invert(-k) is a set with the values
\* of P.
InversionRoundTrip ==
  (call.op = "invert" /\ Abs(call.k) <= Len(p.values) - 1) =>
    /\ IsSet(call.out)
    /\ LET back == PitchSet_invert(call.out, -call.k)
       IN  IsSet(back) /\ back.values = p.values

\* C6: an inversion by a k other than 0 returned a set of three or more notes
\* in another order than the original's.
InversionRoundTripWitness ==
  /\ call.op = "invert" /\ call.k < 0 /\ IsSet(call.out)
  /\ Len(p.values) >= 3
  /\ call.out.values # p.values
  /\ PitchSet_invert(call.out, -call.k).values = p.values

\* C7: inversion range error.  invert(k) on a set of length n raises the
\* "Inversion out of range" ValueError and builds nothing exactly when
\* |k| > n - 1; otherwise it returns a set of length n holding each pitch class
\* as often as the original does.
InversionRange ==
  call.op = "invert" =>
    IF Abs(call.k) > Len(p.values) - 1
    THEN /\ call.out.status = "ValueError"
         /\ call.out.msg = "Inversion out of range"
         /\ call.out.values = <<>>
    ELSE /\ IsSet(call.out)
         /\ Len(call.out.values) = Len(p.values)
         /\ \A v \in 0..(Octave - 1) :
              Count(call.out.values, v) = Count(p.values, v)

\* C7: an inversion below -(n - 1) was refused.
InversionRangeWitness ==
  /\ call.op = "invert" /\ call.k < -(Len(p.values) - 1)
  /\ call.out.status = "ValueError"

\* The name the quality table gives a set with these values: the tonic's note
\* name and the suffix of the successive intervals, else the fallback.
TableName(values) ==
  LET steps == [i \in 1..(Len(values) - 1) |-> (values[i + 1] - values[i]) % Octave]
      names == [i \in 1..Len(values) |-> NOTES[values[i] + 1]]
  IN  IF \E e \in PITCHSET_INTERVALS : e[2] = steps
      THEN NOTES[values[1] + 1] \o (CHOOSE e \in PITCHSET_INTERVALS : e[2] = steps)[1]
      ELSE "Unknown set: " \o ReprList(names)

\* C8: naming is advisory.  PitchSet of any non-empty list of integers is a
\* set, named by the quality table when its intervals are a key of it and by
\* the "Unknown set" fallback otherwise.
NamingIsAdvisory ==
  (call.op = "PitchSet" /\ call.arg.kind = "list" /\ Len(call.arg.seq) >= 1) =>
    /\ IsSet(call.out)
    /\ call.out.name = TableName(call.out.values)

\* The third a left-to-right scan of the structure gives: the first element
\* that is 3 or 4 decides.
ScanThird(structure_values) ==
  LET hits == {i \in 1..Len(structure_values) : structure_values[i] \in {3, 4}}
  IN  IF hits = {} THEN "suspended"
      ELSE LET first == CHOOSE i \in hits : \A j \in hits : i <= j
           IN  IF structure_values[first] = 3 THEN "minor" ELSE "major"

ThirdAgrees(ps) ==
  /\ ps.third = ScanThird(ps.structure_values)
  /\ \A i, j \in 1..Len(ps.structure_values) :
       (ps.structure_values[i] = 3 /\ ps.structure_values[j] = 4) => i < j

\* C9: third derivation tie-break.  The third of every set that exists is the
\* one the left-to-right scan of its structure gives, and where 3 and 4 both
\* occur in a structure, 3 occurs first.
ThirdTieBreak ==
  /\ IsSet(p) => ThirdAgrees(p)
  /\ (IsPitchSetCall /\ IsSet(call.out)) => ThirdAgrees(call.out)

\* C9: a set whose structure holds both 3 and 4.
ThirdTieBreakWitness ==
  /\ IsPitchSetCall /\ IsSet(call.out)
  /\ \E i, j \in 1..Len(call.out.structure_values) :
       call.out.structure_values[i] = 3 /\ call.out.structure_values[j] = 4
  /\ call.out.third = "minor"

\* C10: subtraction.  For sets a, b of equal length (or b an integer), a - b
\* is a set with values (a[i] - b[i]) mod 12, (a - b) + b has the values of a,
\* a - b and b - a have the same values exactly when every value of a - b is
\* 0 or 6; and k - a is PitchSet(k) - a.
SubtractionIsModular ==
  /\ (call.op = "sub" /\ Compatible(p, call.arg)) =>
       /\ IsSet(call.out)
       /\ Len(call.out.values) = Len(p.values)
       /\ \A i \in 1..Len(p.values) :
            call.out.values[i] = (p.values[i] - OperandAt(call.arg, i)) % Octave
       /\ LET sum == PitchSet_add(call.out, call.arg)
          IN  IsSet(sum) /\ sum.values = p.values
       /\ LET reverse == PitchSet_rsub(p, call.arg)
          IN  IsSet(reverse) /\
              (reverse.values = call.out.values
                 <=> \A i \in 1..Len(call.out.values) : call.out.values[i] \in {0, 6})
  /\ (call.op = "rsub" /\ Compatible(p, call.arg)) =>
       /\ IsSet(call.out)
       /\ \A i \in 1..Len(p.values) :
            call.out.values[i] = (OperandAt(call.arg, i) - p.values[i]) % Octave

(***************************************************************************)
(* Properties of Tonality, checked under SpecTonality.                     *)
(***************************************************************************)
SevenNoteScales == {"diatonic", "melodic minor", "harmonic minor"}

\* Value i (0-based) of the mode of template T on degree m (0-based),
\* transposed to start on pitch class pc.
ModeValue(T, pc, m, i) == (pc + T[((i + m) % Len(T)) + 1] - T[m + 1]) % Octave

\* The scale of tonality t is the mode its tonic, scale type and mode name.
ScaleIsMode(t) ==
  LET T == C_BASE_SCALES[t.scale_type]
      pc == PyIndex(NOTES, t.tonic)
      m == PyIndex(DEGREES, t.mode)
  IN  /\ IsSet(t.scale)
      /\ Len(t.scale.values) = 7
      /\ \A i \in 0..6 : t.scale.values[i + 1] = ModeValue(T, pc, m, i)

\* C3: Tonality scale construction.  For every tonic of NOTES, every 7-note
\* scale type and every mode of DEGREES, Tonality(...) is built and its scale
\* has 7 values, values[i] = (pc(t) + T[(i + m) mod 7] - T[m]) mod 12; the
\* tonality the caller holds keeps that scale.
ScaleConstruction ==
  /\ (/\ call.op = "Tonality"
      /\ PyIndex(NOTES, call.arg.tonic) >= 0
      /\ call.arg.scale_type \in SevenNoteScales
      /\ PyIndex(DEGREES, call.arg.mode) >= 0) =>
       /\ call.out.status = "ok"
       /\ call.out.tonic = call.arg.tonic
       /\ call.out.scale_type = call.arg.scale_type
       /\ call.out.mode = call.arg.mode
       /\ ScaleIsMode(call.out)
  /\ (ton.status = "ok" /\ ton.scale_type \in SevenNoteScales) => ScaleIsMode(ton)

\* C3: Tonality("A", mode="VI") returned the scale [9, 11, 0, 2, 4, 5, 7].
ScaleConstructionWitness ==
  /\ call.op = "Tonality"
  /\ call.arg = [tonic |-> "A", scale_type |-> "diatonic", mode |-> "VI"]
  /\ call.out.status = "ok"
  /\ call.out.scale.values = <<9, 11, 0, 2, 4, 5, 7>>

\* The degrees of a chords call, a lone degree wrapped.
Requested(degrees) == IF degrees.scalar THEN <<degrees.one>> ELSE degrees.seq

\* A degree of the valid range: an ordinal in 1..7 or a name of DEGREES.
ValidDegree(d) ==
  IF d.kind = "int" THEN d.n \in 1..7
  ELSE \E i \in 1..Len(DEGREES) : DEGREES[i] = d.s

\* The ordinal 1..7 of a valid degree.
Ordinal(d) ==
  IF d.kind = "int" THEN d.n ELSE CHOOSE i \in 1..Len(DEGREES) : DEGREES[i] = d.s

\* C4: chord degree stacking.  On a tonality over a 7-note scale, for a degree
\* d in 1..7 (name or ordinal) and a size s in 1..7, chords(d, size=s) returns
\* one PitchSet of s notes, the j-th being scale.values[(d - 1 + 2j) mod 7].
ChordStacking ==
  (/\ call.op = "chords"
   /\ ton.scale_type \in SevenNoteScales
   /\ call.arg.degrees.scalar
   /\ ValidDegree(call.arg.degrees.one)
   /\ call.arg.size \in 1..7) =>
    /\ call.out.status = "ok"
    /\ call.out.single
    /\ Len(call.out.chords) = 1
    /\ Len(call.out.chords[1].values) = call.arg.size
    /\ \A j \in 0..(call.arg.size - 1) :
         call.out.chords[1].values[j + 1] =
           ton.scale.values[((Ordinal(call.arg.degrees.one) - 1 + 2 * j) % 7) + 1]

\* C5: degree range validation.  chords (of any size 1..7) raises the range
\* error (ValueError) and returns no chord whenever a requested degree, alone
\* or at any position of a list, is an ordinal outside 1..7 or a name outside
\* I..VII.
DegreeRangeValidation ==
  (/\ call.op = "chords"
   /\ call.arg.size \in 1..7
   /\ \E i \in 1..Len(Requested(call.arg.degrees)) :
        ~ValidDegree(Requested(call.arg.degrees)[i])) =>
    /\ call.out.status = "ValueError"
    /\ call.out.chords = <<>>

====
